---- MODULE Spec2Model ----
(***************************************************************************)
(* Model of apps/backend/calculate_plinko_rtp.py: the exact binomial       *)
(* probability (binomial_probability), the RTP evaluation of one row       *)
(* count (calculate_rtp) and the driver (main).                            *)
(*                                                                         *)
(* Python's int and Decimal arithmetic is modelled on arbitrary-size       *)
(* naturals: a natural is a sequence of base-1000 limbs, least significant *)
(* first, without leading zero limbs (<<>> is 0).  Every Decimal result is *)
(* rounded half-even to the context precision, as the decimal module does. *)
(* A Python float is modelled by the exact decimal value of the IEEE       *)
(* double (53-bit significand, round to nearest even; the values met here  *)
(* are far from the subnormal and overflow ranges).                        *)
(***************************************************************************)
EXTENDS Integers, Sequences, FiniteSets, TLC

(***************************************************************************)
(* Arbitrary-size naturals (Python int, Decimal coefficients).             *)
(***************************************************************************)
Max(a, b) == IF a >= b THEN a ELSE b
Min(a, b) == IF a <= b THEN a ELSE b

Dig(a, i) == IF i >= 1 /\ i <= Len(a) THEN a[i] ELSE 0

Pow10Small(r) == IF r = 0 THEN 1 ELSE IF r = 1 THEN 10 ELSE IF r = 2 THEN 100 ELSE 1000

NatStrip(a) ==
    IF \A i \in 1..Len(a) : a[i] = 0 THEN <<>>
    ELSE SubSeq(a, 1, CHOOSE i \in 1..Len(a) :
                         a[i] # 0 /\ \A j \in (i + 1)..Len(a) : a[j] = 0)

\* carry into limb i of u, every u[j] being at most 1001
NatCarryIn(u, i) ==
    IF \E j \in 1..(i - 1) : u[j] >= 1000 /\ \A k \in (j + 1)..(i - 1) : u[k] = 999
    THEN 1 ELSE 0

\* the natural whose value is the sum of cols[i] * 1000^(i-1), each column
\* sum a natural below 2^31
NatSpread(cols) ==
    [i \in 1..(Len(cols) + 3) |->
        (Dig(cols, i) % 1000) + ((Dig(cols, i - 1) \div 1000) % 1000)
        + ((Dig(cols, i - 2) \div 1000000) % 1000)
        + (Dig(cols, i - 3) \div 1000000000)]
NatFold(t) ==
    [i \in 1..(Len(t) + 1) |-> (Dig(t, i) % 1000) + (Dig(t, i - 1) \div 1000)]
NatRipple(u) ==
    NatStrip([i \in 1..(Len(u) + 1) |-> (Dig(u, i) + NatCarryIn(u, i)) % 1000])
NatNorm(cols) == NatRipple(NatFold(NatSpread(cols)))

NatOfInt(n) == NatNorm(<<n>>)

NatAdd(a, b) == NatNorm([i \in 1..Max(Len(a), Len(b)) |-> Dig(a, i) + Dig(b, i)])

RECURSIVE NatColSum(_, _, _, _, _, _)
NatColSum(a, b, i, j, hi, acc) ==
    IF j > hi \/ acc < 0 THEN acc
    ELSE NatColSum(a, b, i, j + 1, hi, acc + a[j] * b[i + 1 - j])

NatMul(a, b) ==
    IF Len(a) = 0 \/ Len(b) = 0 THEN <<>>
    ELSE NatNorm([i \in 1..(Len(a) + Len(b) - 1) |->
                     NatColSum(a, b, i, Max(1, i + 1 - Len(b)), Min(i, Len(a)), 0)])

\* a times a machine-size integer 0 <= m <= 1000000
NatMulSmall(a, m) == NatNorm([i \in 1..Len(a) |-> a[i] * m])

\* -1, 0 or 1 as a < b, a = b, a > b
NatCmp(a, b) ==
    IF Len(a) > Len(b) THEN 1
    ELSE IF Len(a) < Len(b) THEN -1
    ELSE LET diff == {i \in 1..Len(a) : a[i] # b[i]}
         IN  IF diff = {} THEN 0
             ELSE LET top == CHOOSE i \in diff : \A j \in diff : j <= i
                  IN  IF a[top] > b[top] THEN 1 ELSE -1

\* borrow into limb i of the limb-wise difference d
NatBorrowIn(d, i) ==
    IF \E j \in 1..(i - 1) : d[j] < 0 /\ \A k \in (j + 1)..(i - 1) : d[k] = 0
    THEN 1 ELSE 0

\* a - b for a >= b
NatSub(a, b) ==
    LET d == [i \in 1..Len(a) |-> a[i] - Dig(b, i)]
    IN  NatStrip([i \in 1..Len(a) |-> (d[i] - NatBorrowIn(d, i) + 1000) % 1000])

\* number of decimal digits of a (0 for 0)
NatDigits(a) ==
    IF Len(a) = 0 THEN 0
    ELSE 3 * (Len(a) - 1)
         + (IF a[Len(a)] < 10 THEN 1 ELSE IF a[Len(a)] < 100 THEN 2 ELSE 3)

\* the decimal digit of a at position pos (1 is the units digit)
NatDecDigit(a, pos) ==
    IF pos < 1 THEN 0
    ELSE (Dig(a, ((pos - 1) \div 3) + 1) \div Pow10Small((pos - 1) % 3)) % 10

\* a * 10^d
NatShiftDec(a, d) ==
    IF Len(a) = 0 \/ d <= 0 THEN a
    ELSE NatMulSmall([i \in 1..(d \div 3) |-> 0] \o a, Pow10Small(d % 3))

\* floor(a / 10^d)
NatDropDec(a, d) ==
    IF d <= 0 THEN a
    ELSE IF (d \div 3) >= Len(a) THEN <<>>
    ELSE LET b == SubSeq(a, (d \div 3) + 1, Len(a))
             r == d % 3
         IN  IF r = 0 THEN b
             ELSE NatStrip([i \in 1..Len(b) |->
                               (b[i] \div Pow10Small(r))
                               + ((Dig(b, i + 1) % Pow10Small(r)) * Pow10Small(3 - r))])

\* whether a mod 10^d is non-zero
NatLowNonZero(a, d) ==
    IF d <= 0 THEN FALSE
    ELSE \/ \E i \in 1..Min(d \div 3, Len(a)) : a[i] # 0
         \/ (Dig(a, (d \div 3) + 1) % Pow10Small(d % 3)) # 0

\* a / 10^d rounded half-even to an integer (ROUND_HALF_EVEN); sticky says
\* that a is itself the truncation of an expansion with a non-zero tail
NatRoundUp(kept, first, rest) ==
    IF first > 5 \/ (first = 5 /\ (rest \/ (Dig(kept, 1) % 2) = 1))
    THEN NatAdd(kept, <<1>>) ELSE kept
NatRoundDrop(a, d, sticky) ==
    IF d <= 0 THEN a
    ELSE NatRoundUp(NatDropDec(a, d), NatDecDigit(a, d),
                    sticky \/ NatLowNonZero(a, d - 1))

\* a^k, by squaring
NatSquare(h) == NatMul(h, h)
RECURSIVE NatPow(_, _)
NatPow(a, k) ==
    IF k = 0 THEN <<1>>
    ELSE IF k % 2 = 1 THEN NatMul(NatSquare(NatPow(a, k \div 2)), a)
    ELSE NatSquare(NatPow(a, k \div 2))

\* the leading two limbs of r, read at the limb positions of b's leading two
NatLead(r, b) ==
    IF Len(b) = 1 THEN Dig(r, 1) + 1000 * Dig(r, 2)
    ELSE Dig(r, Len(b) - 1) + 1000 * Dig(r, Len(b)) + 1000000 * Dig(r, Len(b) + 1)

\* floor(r / b) for r < 1000 * b: estimated from the leading limbs, then exact
NatDivGuess(r, b, rl, bl) ==
    CHOOSE q \in Max(0, (rl \div (bl + 1)) - 1)..Min(999, ((rl + 1) \div bl) + 1) :
        /\ NatCmp(NatMulSmall(b, q), r) <= 0
        /\ NatCmp(NatMulSmall(b, q + 1), r) > 0
NatDivLimb(r, b) == NatDivGuess(r, b, NatLead(r, b), NatLead(b, b))

RECURSIVE NatDivLoop(_, _, _, _, _)
NatDivTake(a, b, i, r1, q, qacc) ==
    NatDivLoop(a, b, i - 1, NatSub(r1, NatMulSmall(b, q)), <<q>> \o qacc)
NatDivDown(a, b, i, r1, qacc) == NatDivTake(a, b, i, r1, NatDivLimb(r1, b), qacc)
NatDivLoop(a, b, i, r, qacc) ==
    IF i = 0 \/ Len(r) < 0 \/ Len(qacc) < 0 THEN <<NatStrip(qacc), r>>
    ELSE NatDivDown(a, b, i, NatStrip(<<Dig(a, i)>> \o r), qacc)

\* <<floor(a / b), a mod b>> for b # 0
NatDivMod(a, b) == NatDivLoop(a, b, Len(a), <<>>, <<>>)

\* floor(a / m) for a machine-size integer 0 < m <= 1000000
RECURSIVE NatDivSmallLoop(_, _, _, _, _)
NatDivSmallLoop(a, m, i, rem, qacc) ==
    IF i = 0 \/ rem < 0 \/ Len(qacc) < 0 THEN NatStrip(qacc)
    ELSE NatDivSmallLoop(a, m, i - 1, ((rem * 1000) + Dig(a, i)) % m,
                         <<((rem * 1000) + Dig(a, i)) \div m>> \o qacc)

NatDivSmall(a, m) == NatDivSmallLoop(a, m, Len(a), 0, <<>>)

\* math.comb(n, k) for 0 <= k: the exact integer, 0 when k > n
RECURSIVE CombLoop(_, _, _, _)
CombLoop(n, k, i, acc) ==
    IF i > k \/ Len(acc) < 0 THEN acc
    ELSE CombLoop(n, k, i + 1, NatDivSmall(NatMulSmall(acc, n - k + i), i))

\* comb without the case k > n, for which math.comb returns 0
comb_unguarded(n, k) == CombLoop(n, Min(k, n - k), 1, <<1>>)

comb(n, k) == IF k > n THEN <<>> ELSE CombLoop(n, Min(k, n - k), 1, <<1>>)

\* the natural written by the decimal digits ds, most significant first
RECURSIVE NatOfDigits(_, _, _)
NatOfDigits(ds, i, acc) ==
    IF i > Len(ds) \/ Len(acc) < 0 THEN acc
    ELSE NatOfDigits(ds, i + 1, NatAdd(NatMulSmall(acc, 10), NatOfInt(ds[i])))

(***************************************************************************)
(* decimal.Decimal under the context getcontext(): a finite number is      *)
(* (-1)^sign * coef * 10^exp; kind "inf" is an infinity; any other kind is *)
(* the exception the operation raised (the context traps InvalidOperation).*)
(***************************************************************************)
DecFin(s, c, e) == [kind |-> "fin", sign |-> s, coef |-> c, exp |-> e]
DecInf(s) == [kind |-> "inf", sign |-> s, coef |-> <<>>, exp |-> 0]
DecRaise(exc) == [kind |-> exc, sign |-> 0, coef |-> <<>>, exp |-> 0]

IsRaise(d) == d.kind \notin {"fin", "inf"}
IsZero(d) == d.kind = "fin" /\ Len(d.coef) = 0

DecOfNat(c) == DecFin(0, c, 0)
DecOfInt(n) == DecOfNat(NatOfInt(n))

\* Decimal(text) for the text of a number literal, its sign, the digits before
\* and the digits after the point: Decimal('0.499975'), Decimal(str(5.2)),
\* Decimal(str(120))
DecimalOfStr(lit) ==
    DecFin(IF lit.neg THEN 1 ELSE 0,
           NatOfDigits(lit.int \o lit.frac, 1, <<>>), 0 - Len(lit.frac))

\* Context._fix: round a finite result half-even to pr significant digits
DecRounded(pr, s, c, e) ==
    IF NatDigits(c) > pr THEN DecFin(s, NatDropDec(c, 1), e + 1) ELSE DecFin(s, c, e)
DecFixDrop(pr, d, drop) ==
    DecRounded(pr, d.sign, NatRoundDrop(d.coef, drop, FALSE), d.exp + drop)
DecFix(pr, d) ==
    IF d.kind # "fin" \/ NatDigits(d.coef) <= pr THEN d
    ELSE DecFixDrop(pr, d, NatDigits(d.coef) - pr)

DecNeg(d) == [d EXCEPT !.sign = 1 - d.sign]

\* the exact sum of two finite numbers
DecAddSigned(sa, ca, sb, cb, e, cmp) ==
    IF sa = sb THEN DecFin(sa, NatAdd(ca, cb), e)
    ELSE IF cmp = 0 THEN DecFin(0, <<>>, e)
    ELSE IF cmp > 0 THEN DecFin(sa, NatSub(ca, cb), e)
    ELSE DecFin(sb, NatSub(cb, ca), e)
DecAddAligned(sa, ca, sb, cb, e) == DecAddSigned(sa, ca, sb, cb, e, NatCmp(ca, cb))
DecAddAt(a, b, e) ==
    DecAddAligned(a.sign, NatShiftDec(a.coef, a.exp - e),
                  b.sign, NatShiftDec(b.coef, b.exp - e), e)
DecAddExact(a, b) == DecAddAt(a, b, Min(a.exp, b.exp))

\* Decimal.__add__
DecAdd(pr, a, b) ==
    IF IsRaise(a) THEN a
    ELSE IF IsRaise(b) THEN b
    ELSE IF a.kind = "inf" THEN a
    ELSE IF b.kind = "inf" THEN b
    ELSE DecFix(pr, DecAddExact(a, b))

\* Decimal.__sub__
DecSub(pr, a, b) == DecAdd(pr, a, IF IsRaise(b) THEN b ELSE DecNeg(b))

\* Decimal.__mul__
DecMul(pr, a, b) ==
    IF IsRaise(a) THEN a
    ELSE IF IsRaise(b) THEN b
    ELSE IF a.kind = "inf" \/ b.kind = "inf"
    THEN IF IsZero(a) \/ IsZero(b) THEN DecRaise("InvalidOperation")
         ELSE DecInf((a.sign + b.sign) % 2)
    ELSE DecFix(pr, DecFin((a.sign + b.sign) % 2, NatMul(a.coef, b.coef), a.exp + b.exp))

\* 1 / (c * 10^e) rounded half-even to pr digits
DecQuotient(pr, s, q, sticky, drop, e) ==
    DecRounded(pr, s, NatRoundDrop(q, drop, sticky), drop + e)
DecReciprocalOf(pr, s, qr, e) ==
    DecQuotient(pr, s, Head(qr), Len(Head(Tail(qr))) # 0,
                NatDigits(Head(qr)) - pr, e)
DecReciprocalAt(pr, s, c, e, sh) ==
    DecReciprocalOf(pr, s, NatDivMod(NatShiftDec(<<1>>, sh), c), 0 - sh - e)
DecReciprocal(pr, s, c, e) == DecReciprocalAt(pr, s, c, e, NatDigits(c) + pr + 2)

\* Decimal.__pow__ of a finite x with a Python int exponent k
DecPow(pr, x, k) ==
    IF IsRaise(x) THEN x
    ELSE IF k = 0
    THEN IF IsZero(x) THEN DecRaise("InvalidOperation") ELSE DecOfInt(1)
    ELSE LET s == IF (IF k < 0 THEN 0 - k ELSE k) % 2 = 1 THEN x.sign ELSE 0
         IN  IF IsZero(x) THEN (IF k > 0 THEN DecFin(s, <<>>, 0) ELSE DecInf(s))
             ELSE IF k > 0 THEN DecFix(pr, DecFin(s, NatPow(x.coef, k), x.exp * k))
             ELSE DecReciprocal(pr, s, NatPow(x.coef, 0 - k), x.exp * (0 - k))

\* -1, 0 or 1 as a < b, a = b, a > b (finite a, b; compared by value)
DecSignum(d) == IF Len(d.coef) = 0 THEN 0 ELSE IF d.sign = 1 THEN -1 ELSE 1
DecCmp(a, b) == DecSignum(DecAddExact(a, DecNeg(b)))


(***************************************************************************)
(* binomial_probability(n, k, p), lines 26-40, under precision pr.         *)
(***************************************************************************)
\* binomial_probability with p in place of 1 - p in the failure term
binomial_probability_one_sided(pr, n, k, p) ==
    IF k < 0 \/ n < 0 THEN DecRaise("ValueError")
    ELSE DecMul(pr, DecMul(pr, DecOfNat(comb(n, k)), DecPow(pr, p, k)),
                DecPow(pr, p, n - k))

binomial_probability(pr, n, k, p) ==
    IF k < 0 \/ n < 0 THEN DecRaise("ValueError")
    ELSE LET combinations == DecOfNat(comb(n, k))
             p_success == DecPow(pr, p, k)
             p_failure == DecPow(pr, DecSub(pr, DecOfInt(1), p), n - k)
         IN  DecMul(pr, DecMul(pr, combinations, p_success), p_failure)

(***************************************************************************)
(* Python float: the IEEE double nearest to a finite decimal x (ties to    *)
(* even), given by its exact decimal value.                                *)
(***************************************************************************)
\* x * 2^s for x = c * 10^e, as <<coefficient, exponent>>
FloatScale(c, e, s) ==
    IF s >= 0 THEN <<NatMul(c, NatPow(<<2>>, s)), e>>
    ELSE <<NatMul(c, NatPow(<<5>>, 0 - s)), e + s>>

\* whether 2^52 <= x * 2^s < 2^53
FloatFloor(y) ==
    IF Len(Head(y)) = 0 THEN <<>>
    ELSE IF Head(Tail(y)) >= 0 THEN NatShiftDec(Head(y), Head(Tail(y)))
    ELSE NatDropDec(Head(y), 0 - Head(Tail(y)))
FloatInRange(fl) ==
    NatCmp(fl, NatPow(<<2>>, 52)) >= 0 /\ NatCmp(fl, NatPow(<<2>>, 53)) < 0
FloatNormal(c, e, s) == FloatInRange(FloatFloor(FloatScale(c, e, s)))

\* float(x) for a Decimal x; x + y, x * y of floats round the exact result
\* the 53-bit significand: x * 2^s rounded half-even to an integer
FloatRound(y) ==
    IF Head(Tail(y)) >= 0 THEN NatShiftDec(Head(y), Head(Tail(y)))
    ELSE NatRoundDrop(Head(y), 0 - Head(Tail(y)), FALSE)
\* m * 2^(-s) written as a decimal
FloatValue(sign, m, s) ==
    IF s >= 0 THEN DecFin(sign, NatMul(m, NatPow(<<5>>, s)), 0 - s)
    ELSE DecFin(sign, NatMul(m, NatPow(<<2>>, 0 - s)), 0)
FloatAt(x, s) == FloatValue(x.sign, FloatRound(FloatScale(x.coef, x.exp, s)), s)
\* the s with 2^52 <= x * 2^s < 2^53, searched around the estimate est
FloatExponent(x, est) ==
    CHOOSE t \in (49 - est)..(58 - est) : FloatNormal(x.coef, x.exp, t)
FloatOfDec(x) ==
    IF x.kind # "fin" \/ Len(x.coef) = 0 THEN DecFin(0, <<>>, 0)
    ELSE FloatAt(x, FloatExponent(x, ((NatDigits(x.coef) + x.exp) * 3322) \div 1000))

FloatSub(a, b) == FloatOfDec(DecAddExact(a, DecNeg(b)))
FloatMul(a, b) ==
    FloatOfDec(DecFin((a.sign + b.sign) % 2, NatMul(a.coef, b.coef), a.exp + b.exp))
FloatAbs(a) == [a EXCEPT !.sign = 0]

(***************************************************************************)
(* Module constants, lines 11-24.  A number literal is kept as its text    *)
(* (str(120) is "120", str(5.2) is "5.2"), which Decimal(str(m)) parses.   *)
(***************************************************************************)
RECURSIVE IntDigits(_)
IntDigits(n) == IF n < 10 THEN <<n>> ELSE Append(IntDigits(n \div 10), n % 10)

Lit(i, f) == [neg |-> FALSE, int |-> IntDigits(i), frac |-> f]
NegLit(i, f) == [neg |-> TRUE, int |-> IntDigits(i), frac |-> f]

\* the precision of a decimal context that line 11 did not set
PrecDefault == 2 * 14

\* getcontext().prec = 50
PREC == 50

\* MULTIPLIER_TABLES as shipped
ShippedTables ==
    (11 :> <<Lit(120, <<>>), Lit(14, <<>>), Lit(5, <<2>>), Lit(1, <<4>>),
             Lit(0, <<4>>), Lit(0, <<2>>), Lit(0, <<2>>), Lit(0, <<4>>),
             Lit(1, <<4>>), Lit(5, <<2>>), Lit(14, <<>>), Lit(120, <<>>)>>)
    @@ (12 :> <<Lit(170, <<>>), Lit(24, <<>>), Lit(8, <<1>>), Lit(2, <<>>),
                Lit(0, <<7>>), Lit(0, <<2>>), Lit(0, <<2>>), Lit(0, <<2>>),
                Lit(0, <<7>>), Lit(2, <<>>), Lit(8, <<1>>), Lit(24, <<>>),
                Lit(170, <<>>)>>)
    @@ (13 :> <<Lit(260, <<>>), Lit(37, <<>>), Lit(11, <<>>), Lit(4, <<>>),
                Lit(1, <<>>), Lit(0, <<2>>), Lit(0, <<2>>), Lit(0, <<2>>),
                Lit(0, <<2>>), Lit(1, <<>>), Lit(4, <<>>), Lit(11, <<>>),
                Lit(37, <<>>), Lit(260, <<>>)>>)
    @@ (14 :> <<Lit(420, <<>>), Lit(56, <<>>), Lit(18, <<>>), Lit(5, <<>>),
                Lit(1, <<9>>), Lit(0, <<3>>), Lit(0, <<2>>), Lit(0, <<2>>),
                Lit(0, <<2>>), Lit(0, <<3>>), Lit(1, <<9>>), Lit(5, <<>>),
                Lit(18, <<>>), Lit(56, <<>>), Lit(420, <<>>)>>)
    @@ (15 :> <<Lit(620, <<>>), Lit(83, <<>>), Lit(27, <<>>), Lit(8, <<>>),
                Lit(3, <<>>), Lit(0, <<5>>), Lit(0, <<2>>), Lit(0, <<2>>),
                Lit(0, <<2>>), Lit(0, <<2>>), Lit(0, <<5>>), Lit(3, <<>>),
                Lit(8, <<>>), Lit(27, <<>>), Lit(83, <<>>), Lit(620, <<>>)>>)
    @@ (16 :> <<Lit(1000, <<>>), Lit(130, <<>>), Lit(26, <<>>), Lit(9, <<>>),
                Lit(4, <<>>), Lit(2, <<>>), Lit(0, <<2>>), Lit(0, <<2>>),
                Lit(0, <<2>>), Lit(0, <<2>>), Lit(0, <<2>>), Lit(2, <<>>),
                Lit(4, <<>>), Lit(9, <<>>), Lit(26, <<>>), Lit(130, <<>>),
                Lit(1000, <<>>)>>)

\* a catalog that differs from the shipped one in the table of 11 rows: every
\* multiplier is 1 but that of bucket 5, the float 1.0000000000000002
NearOneTables ==
    [ShippedTables EXCEPT ![11] =
        [i \in 1..12 |-> IF i = 6 THEN Lit(1, <<0,0,0,0,0,0,0,0,0,0,0,0,0,0,0,2>>)
                         ELSE Lit(1, <<>>)]]

\* LEFT_PROBABILITY = Decimal('0.499975')
ShippedBias == Lit(0, <<4, 9, 9, 9, 7, 5>>)

\* the row counts main iterates over, line 102
MainRows == <<11, 12, 13, 14, 15, 16>>

(***************************************************************************)
(* State.  MULTIPLIER_TABLES, LEFT_PROBABILITY and prec are the module     *)
(* globals (prec is getcontext().prec).  pc is the position of the running *)
(* program; todo and results are main's loop list and dict; rows,          *)
(* multipliers, bucket_index, total_rtp and total_prob are calculate_rtp's *)
(* locals; emitted holds the bucket lines the running evaluation printed,  *)
(* warned whether it printed the total-probability warning, retval what it *)
(* returned, raised the exception that ended it.  summary and findings are *)
(* what main printed.  exact is a history variable: the Decimal total_rtp  *)
(* each evaluation held when it returned.  ncalls counts the calls of a    *)
(* caller other than main; probe and answer are the arguments and the      *)
(* result of a direct call of binomial_probability.                        *)
(***************************************************************************)
VARIABLES MULTIPLIER_TABLES, LEFT_PROBABILITY, prec, pc, todo, results,
          rows, multipliers, bucket_index, total_rtp, total_prob, emitted,
          warned, retval, raised, summary, findings, exact, ncalls, probe,
          answer

globals == <<MULTIPLIER_TABLES, LEFT_PROBABILITY, prec>>
locals == <<rows, multipliers, bucket_index, total_rtp, total_prob, emitted,
            warned, retval>>
driver == <<todo, results, summary, findings>>
vars == <<MULTIPLIER_TABLES, LEFT_PROBABILITY, prec, pc, todo, results,
          rows, multipliers, bucket_index, total_rtp, total_prob, emitted,
          warned, retval, raised, summary, findings, exact, ncalls, probe,
          answer>>

Zero == DecFin(0, <<>>, 0)
One == DecFin(0, <<1>>, 0)

InitCommon ==
    /\ prec = PREC
    /\ results = <<>>
    /\ rows = 0
    /\ multipliers = <<>>
    /\ bucket_index = 0
    /\ total_rtp = Zero
    /\ total_prob = Zero
    /\ emitted = <<>>
    /\ warned = FALSE
    /\ retval = Zero
    /\ raised = "none"
    /\ summary = <<>>
    /\ findings = [count |-> 0, verdict |-> "none"]
    /\ exact = <<>>
    /\ ncalls = 0
    /\ answer = DecRaise("none")

(***************************************************************************)
(* calculate_rtp(rows), lines 42-92.                                       *)
(***************************************************************************)
\* Enter without lines 61-62: the accumulators keep what the previous
\* evaluation left in them
EnterKeep(r) ==
    IF r \notin DOMAIN MULTIPLIER_TABLES
    THEN /\ pc' = "raised"
         /\ raised' = "KeyError"
         /\ UNCHANGED locals
    ELSE /\ pc' = "loop"
         /\ rows' = r
         /\ multipliers' = MULTIPLIER_TABLES[r]
         /\ bucket_index' = 0
         /\ emitted' = <<>>
         /\ warned' = FALSE
         /\ UNCHANGED <<total_rtp, total_prob, retval, raised>>

\* lines 50-62: the table lookup and the accumulators
Enter(r) ==
    IF r \notin DOMAIN MULTIPLIER_TABLES
    THEN /\ pc' = "raised"
         /\ raised' = "KeyError"
         /\ UNCHANGED locals
    ELSE /\ pc' = "loop"
         /\ rows' = r
         /\ multipliers' = MULTIPLIER_TABLES[r]
         /\ total_rtp' = Zero
         /\ total_prob' = Zero
         /\ bucket_index' = 0
         /\ emitted' = <<>>
         /\ warned' = FALSE
         /\ UNCHANGED <<retval, raised>>

\* the loop one iteration short, range(len(multipliers) - 1)
BucketCountShort(r, ms) == Len(ms) - 1

\* the loop over the row count, range(rows + 1)
BucketCountRows(r, ms) == r + 1

\* line 64: range(len(multipliers)), the number of iterations
BucketCount(r, ms) == Len(ms)

\* lines 64-79: one iteration of the bucket loop
\* lines 72-79, for the values lines 65-71 computed
BucketLine(left_steps, prob, multiplier, contribution) ==
    /\ total_prob' = DecAdd(prec, total_prob, prob)
    /\ total_rtp' = DecAdd(prec, total_rtp, contribution)
    /\ emitted' = Append(emitted,
                         [bucket_index |-> bucket_index,
                          left_steps |-> left_steps,
                          prob |-> prob,
                          multiplier |-> multiplier,
                          contribution |-> contribution])
    /\ bucket_index' = bucket_index + 1
    /\ UNCHANGED <<pc, raised, rows, multipliers, warned, retval>>

\* line 71, for the multiplier line 70 read
BucketProduct(left_steps, prob, multiplier) ==
    BucketLine(left_steps, prob, multiplier, DecMul(prec, prob, multiplier))

\* an exception leaves calculate_rtp: nothing more is added or printed
Raise(exc) ==
    /\ pc' = "raised"
    /\ raised' = exc
    /\ UNCHANGED locals

\* lines 68-70, for the probability line 66 computed; multipliers[bucket_index]
\* raises IndexError past the end of the list
BucketValue(left_steps, prob) ==
    IF IsRaise(prob) THEN Raise(prob.kind)
    ELSE IF bucket_index >= Len(multipliers) THEN Raise("IndexError")
    ELSE BucketProduct(left_steps, prob, DecimalOfStr(multipliers[bucket_index + 1]))

Bucket ==
    /\ pc = "loop"
    /\ bucket_index < BucketCount(rows, multipliers)
    /\ BucketValue(bucket_index,
                   binomial_probability(prec, rows, bucket_index, LEFT_PROBABILITY))
    /\ UNCHANGED <<globals, driver, exact, ncalls, probe, answer>>

\* the sanity check with the tolerance 0.001
SanityWarningLoose(tp) ==
    DecCmp(FloatAbs(FloatSub(FloatOfDec(tp), One)),
           FloatOfDec(DecimalOfStr(Lit(0, <<0, 0, 1>>)))) > 0

\* line 89: abs(float(total_prob) - 1.0) > 0.0001
SanityWarning(tp) ==
    DecCmp(FloatAbs(FloatSub(FloatOfDec(tp), One)),
           FloatOfDec(DecimalOfStr(Lit(0, <<0, 0, 0, 1>>)))) > 0

\* Leave with the sanity check raising instead of printing
LeaveAbort ==
    /\ pc = "loop"
    /\ bucket_index >= BucketCount(rows, multipliers)
    /\ IF SanityWarning(total_prob)
       THEN /\ pc' = "raised"
            /\ raised' = "ValueError"
            /\ UNCHANGED <<warned, retval, exact>>
       ELSE /\ warned' = FALSE
            /\ retval' = FloatOfDec(total_rtp)
            /\ exact' = (rows :> total_rtp) @@ exact
            /\ pc' = "returned"
            /\ UNCHANGED raised
    /\ UNCHANGED <<globals, driver, rows, multipliers, bucket_index, total_rtp,
                   total_prob, emitted, ncalls, probe, answer>>

\* lines 81-92: the totals, the sanity check and the return
Leave ==
    /\ pc = "loop"
    /\ bucket_index >= BucketCount(rows, multipliers)
    /\ warned' = SanityWarning(total_prob)
    /\ retval' = FloatOfDec(total_rtp)
    /\ exact' = (rows :> total_rtp) @@ exact
    /\ pc' = "returned"
    /\ UNCHANGED <<globals, driver, rows, multipliers, bucket_index, total_rtp,
                   total_prob, emitted, raised, ncalls, probe, answer>>

(***************************************************************************)
(* main(), lines 94-141.                                                   *)
(***************************************************************************)
\* lines 102-103: the next row count of the list is evaluated
MainCall ==
    /\ pc = "main"
    /\ todo # <<>>
    /\ Enter(Head(todo))
    /\ UNCHANGED <<globals, driver, exact, ncalls, probe, answer>>

\* line 104: results[rows] = rtp
MainStore ==
    /\ pc = "returned"
    /\ results' = (rows :> retval) @@ results
    /\ todo' = Tail(todo)
    /\ pc' = IF Tail(todo) = <<>> THEN "summary" ELSE "main"
    /\ UNCHANGED <<globals, locals, raised, summary, findings, exact, ncalls,
                   probe, answer>>

\* lines 116-121
Status(rtp) ==
    IF DecCmp(rtp, One) > 0 THEN "PLAYER ADVANTAGE"
    ELSE IF DecCmp(rtp, FloatOfDec(DecimalOfStr(Lit(0, <<9, 9>>)))) > 0
    THEN "OK (Near target)"
    ELSE "OK"

\* the keys of results that the summary loop has not printed yet
Unprinted == DOMAIN results \ {summary[i].rows : i \in 1..Len(summary)}

\* SummaryRow taking the keys in descending order
SummaryRowReversed ==
    /\ pc = "summary"
    /\ Unprinted # {}
    /\ LET r == CHOOSE x \in Unprinted : \A y \in Unprinted : x >= y
       IN  summary' = Append(summary,
                             [rows |-> r,
                              rtp |-> results[r],
                              house_edge |-> FloatMul(FloatSub(One, results[r]),
                                                      DecOfInt(100)),
                              status |-> Status(results[r])])
    /\ UNCHANGED <<globals, locals, pc, todo, results, raised, findings, exact,
                   ncalls, probe, answer>>

\* lines 112-123: one line of the summary, in the order of sorted(results.keys())
SummaryRow ==
    /\ pc = "summary"
    /\ Unprinted # {}
    /\ LET r == CHOOSE x \in Unprinted : \A y \in Unprinted : x <= y
           rtp == results[r]
       IN  summary' = Append(summary,
                             [rows |-> r,
                              rtp |-> rtp,
                              house_edge |-> FloatMul(FloatSub(One, rtp), DecOfInt(100)),
                              status |-> Status(rtp)])
    /\ UNCHANGED <<globals, locals, pc, todo, results, raised, findings, exact,
                   ncalls, probe, answer>>

\* lines 132-139: the count of negative house edges and the verdict
Findings ==
    /\ pc = "summary"
    /\ Unprinted = {}
    /\ LET negative_edge_count ==
               Cardinality({r \in DOMAIN results : DecCmp(results[r], One) > 0})
       IN  findings' =
               [count |-> negative_edge_count,
                verdict |-> IF negative_edge_count > 0
                            THEN "configurations have NEGATIVE house edge"
                            ELSE "All configurations have positive house edge"]
    /\ pc' = "done"
    /\ UNCHANGED <<globals, locals, todo, results, raised, summary, exact,
                   ncalls, probe, answer>>

\* the catalogs and biases the script is run with
Catalogs == {ShippedTables, NearOneTables}
Half == Lit(0, <<5>>)
SmallBias == Lit(0, <<0, 2>>)
Biases == {ShippedBias, Half, SmallBias}

Init ==
    /\ MULTIPLIER_TABLES \in Catalogs
    /\ \E b \in Biases : LEFT_PROBABILITY = DecimalOfStr(b)
    /\ pc = "main"
    /\ todo = MainRows
    /\ probe = [n |-> 0, k |-> 0, p |-> Zero]
    /\ InitCommon

Next == MainCall \/ Bucket \/ Leave \/ MainStore \/ SummaryRow \/ Findings

Spec == Init /\ [][Next]_vars

(***************************************************************************)
(* calculate_rtp called by an importer of the module, any number of times  *)
(* and in any order, under catalogs whose table of r rows holds r + 1 + d  *)
(* multipliers (d = 0 is the shape the shipped tables have).               *)
(***************************************************************************)
MaxRows == 3
MaxCalls == 3

SizedTables(d) == [r \in 1..MaxRows |-> SubSeq(ShippedTables[11], 1, r + 1 + d)]
EvalCatalogs == {SizedTables(d) : d \in {-1, 0, 1}}
EvalBiases == {ShippedBias, Half, SmallBias}

InitEval ==
    /\ MULTIPLIER_TABLES \in EvalCatalogs
    /\ \E b \in EvalBiases : LEFT_PROBABILITY = DecimalOfStr(b)
    /\ pc = "idle"
    /\ todo = <<>>
    /\ probe = [n |-> 0, k |-> 0, p |-> Zero]
    /\ InitCommon

\* rtp = calculate_rtp(r), lines 42-62
EvalCall(r) ==
    /\ pc = "idle"
    /\ ncalls < MaxCalls
    /\ Enter(r)
    /\ ncalls' = ncalls + 1
    /\ UNCHANGED <<globals, driver, exact, probe, answer>>

\* line 92: the caller receives the float and keeps it under the row count
EvalReturn ==
    /\ pc = "returned"
    /\ results' = (rows :> retval) @@ results
    /\ pc' = "idle"
    /\ UNCHANGED <<globals, locals, todo, raised, summary, findings, exact,
                   ncalls, probe, answer>>

NextEval == (\E r \in 1..MaxRows : EvalCall(r)) \/ Bucket \/ Leave \/ EvalReturn

SpecEval == InitEval /\ [][NextEval]_vars

(***************************************************************************)
(* binomial_probability called directly: the arguments are drawn from      *)
(* Probes, the call is one step.                                           *)
(***************************************************************************)
MaxProbeRows == 5
MaxSymRows == 69

ProbeBiases == {Half, ShippedBias, Lit(0, <<>>), Lit(1, <<>>), Lit(1, <<5>>),
                NegLit(0, <<5>>)}

\* k from -1 to n + 1 under biases inside, at the ends of and outside (0, 1)
RangeProbes ==
    UNION {{[n |-> n, k |-> k, p |-> DecimalOfStr(b)] :
               k \in (-1)..(n + 1), b \in ProbeBiases} : n \in 0..MaxProbeRows}

\* every k of every row count up to MaxSymRows under the bias 0.5
HalfProbes ==
    UNION {{[n |-> n, k |-> k, p |-> DecimalOfStr(Half)] : k \in 0..n} :
              n \in 0..MaxSymRows}

InitProb ==
    /\ MULTIPLIER_TABLES = ShippedTables
    /\ LEFT_PROBABILITY = DecimalOfStr(ShippedBias)
    /\ pc = "probe"
    /\ todo = <<>>
    /\ probe \in RangeProbes \cup HalfProbes
    /\ InitCommon

\* answer = binomial_probability(n, k, p), lines 26-40
Apply ==
    /\ pc = "probe"
    /\ answer' = binomial_probability(prec, probe.n, probe.k, probe.p)
    /\ pc' = "probed"
    /\ UNCHANGED <<globals, locals, driver, raised, exact, ncalls, probe>>

NextProb == Apply

SpecProb == InitProb /\ [][NextProb]_vars

(***************************************************************************)
(* The properties.                                                         *)
(***************************************************************************)
DecAbs(d) == [d EXCEPT !.sign = 0]
DecDist(a, b) == DecAbs(DecAddExact(a, DecNeg(b)))

\* whether two numbers are finite and equal in value (Decimal ==)
DecEq(a, b) == a.kind = "fin" /\ b.kind = "fin" /\ DecCmp(a, b) = 0

\* whether x is within one part in 10^15 of y
DecNear(x, y) == DecCmp([DecDist(x, y) EXCEPT !.exp = @ + 15], DecAbs(y)) <= 0

\* 0 < p < 1
InUnit(p) == DecCmp(p, Zero) > 0 /\ DecCmp(p, One) < 0

\* the tolerance of line 89, and the nearest values above and below it that
\* the conversion to float cannot move across it
Tolerance == DecimalOfStr(Lit(0, <<0, 0, 0, 1>>))
ToleranceUp == DecimalOfStr(Lit(0, <<0, 0, 0, 1, 0, 0, 0, 0, 0, 0, 0, 0, 0, 0, 1>>))
ToleranceDown == DecimalOfStr(Lit(0, <<0, 0, 0, 0, 9, 9, 9, 9, 9, 9, 9, 9, 9, 9, 9>>))

\* |total_prob - 1|, exactly
Deviation == DecDist(total_prob, One)

\* the probability of the bucket a table of rows entries leaves out
Omitted == DecPow(prec, LEFT_PROBABILITY, rows)

\* whether a returned result carries an anomaly flag that is set
Flagged(res) == "anomaly" \in DOMAIN res /\ res.anomaly

Probed(n, k, b) ==
    /\ pc = "probed"
    /\ probe.n = n
    /\ probe.k = k
    /\ probe.p = DecimalOfStr(b)

\* ---------------------------------------------------------------- C1
\* C1 as stated: binomial_probability fails whenever k is outside [0, rows]
\* or the bias is outside (0, 1), and returns no value then.
C1_FailsOnInvalidInput ==
    (pc = "probed" /\ (probe.k < 0 \/ probe.k > probe.n \/ ~InUnit(probe.p)))
        => IsRaise(answer)

\* C1 amended: binomial_probability validates nothing itself.  It fails (the
\* ValueError of math.comb) when k < 0; for k > rows and a bias in (0, 1) it
\* returns 0; for 0 <= k <= rows it returns a number under every bias, except
\* that it fails with InvalidOperation (0 ** 0) for bias 0 with k = 0 and for
\* bias 1 with k = rows.
C1_NoValidation ==
    pc = "probed" =>
        /\ probe.k < 0 => answer.kind = "ValueError"
        /\ (probe.k > probe.n /\ InUnit(probe.p)) => IsZero(answer)
        /\ (0 <= probe.k /\ probe.k <= probe.n) =>
              IF \/ (IsZero(probe.p) /\ probe.k = 0)
                 \/ (DecEq(probe.p, One) /\ probe.k = probe.n)
              THEN answer.kind = "InvalidOperation"
              ELSE answer.kind = "fin"

\* probability(rows=5, k=6, bias=0.5) has returned 0
C1_Witness == Probed(5, 6, Half) /\ IsZero(answer)

\* ---------------------------------------------------------------- C2
\* C2 as stated: an evaluation of a table of exactly rows entries returns
\* with the total-probability warning raised.
C2_ShortTableWarns ==
    (pc = "returned" /\ rows >= 1 /\ Len(multipliers) = rows) => warned

\* C2 amended: an evaluation of a table of exactly rows entries (rows >= 1,
\* bias in (0, 1)) never raises and returns an RTP; its total probability is
\* 1 minus bias^rows, the probability of the bucket left out, and the warning
\* is printed when bias^rows exceeds the tolerance 1e-4 and not when it is
\* below it (within 1e-15 of the tolerance the float rounding decides).
C2_ShortTableWarnsAboveTolerance ==
    /\ pc # "raised"
    /\ (pc = "returned" /\ rows >= 1 /\ Len(multipliers) = rows) =>
          /\ retval.kind = "fin"
          /\ DecCmp(DecDist(DecAddExact(total_prob, Omitted), One),
                    DecFin(0, <<1>>, -40)) <= 0
          /\ DecCmp(Omitted, ToleranceUp) > 0 => warned
          /\ DecCmp(Omitted, ToleranceDown) < 0 => ~warned

\* a table one short has been evaluated and the warning printed
C2_Witness ==
    /\ pc = "returned"
    /\ rows >= 1
    /\ Len(multipliers) = rows
    /\ warned
    /\ DecCmp(Omitted, ToleranceUp) > 0

\* ---------------------------------------------------------------- C3
\* C3 as stated: a table whose length differs from rows + 1 is refused at
\* once: no evaluation is ever in its bucket loop or returned with such a
\* table.
C3_MismatchAborts ==
    pc \in {"loop", "returned"} => Len(multipliers) = rows + 1

\* C3 amended: a table whose length differs from rows + 1 (rows >= 1, bias in
\* (0, 1)) is accepted without any check: the evaluation raises nothing,
\* produces one bucket line for each entry of the table and returns an RTP.
C3_MismatchAccepted ==
    /\ pc # "raised"
    /\ (pc \in {"loop", "returned"} /\ Len(multipliers) # rows + 1) =>
          /\ raised = "none"
          /\ Len(emitted) = bucket_index
          /\ bucket_index <= Len(multipliers)
          /\ pc = "returned" =>
                /\ Len(emitted) = Len(multipliers)
                /\ retval.kind = "fin"
                /\ DecNear(retval, total_rtp)

\* a table one entry too long has been evaluated to the end
C3_Witness ==
    /\ pc = "returned"
    /\ Len(multipliers) = rows + 2
    /\ Len(emitted) = rows + 2

\* ---------------------------------------------------------------- C4
\* C4 as stated: the warning is raised exactly when |total_probability - 1|
\* exceeds 1e-4 and is a flag on the returned result.
C4_FlagOnResult ==
    pc = "returned" =>
        /\ warned <=> DecCmp(Deviation, Tolerance) > 0
        /\ warned <=> Flagged(retval)

\* C4 amended: the warning is a printed line only; the returned result is the
\* bare float RTP and carries no flag.  It is printed when
\* |float(total_probability) - 1.0| > 0.0001 in float arithmetic, that is
\* whenever the exact deviation exceeds 1e-4 by more than 1e-15 and never when
\* it is more than 1e-15 below; it never raises, and the value returned is
\* float(total_rtp) whether it was printed or not.
C4_WarningIsPrintedOnly ==
    /\ pc # "raised"
    /\ pc = "returned" =>
          /\ DecCmp(Deviation, ToleranceUp) > 0 => warned
          /\ warned => DecCmp(Deviation, ToleranceDown) > 0
          /\ ~Flagged(retval)
          /\ retval.kind = "fin"
          /\ DecNear(retval, total_rtp)
          /\ raised = "none"

\* an evaluation has printed the warning and returned its RTP
C4_Witness ==
    /\ pc = "returned"
    /\ warned
    /\ DecCmp(Deviation, Tolerance) > 0
    /\ DecNear(retval, total_rtp)

\* ---------------------------------------------------------------- C5
\* C5: for a table of exactly rows + 1 entries the accumulated total
\* probability is within 1e-9 of 1 and the warning is not printed.
C5_Normalised ==
    (pc = "returned" /\ Len(multipliers) = rows + 1) =>
        /\ DecCmp(Deviation, DecFin(0, <<1>>, -9)) <= 0
        /\ ~warned

\* the shipped table of 11 rows has been evaluated at the bias 0.499975
C5_Witness ==
    /\ pc = "returned"
    /\ rows = 11
    /\ multipliers = ShippedTables[11]
    /\ LEFT_PROBABILITY = DecimalOfStr(ShippedBias)
    /\ Len(emitted) = 12
    /\ ~warned

\* ---------------------------------------------------------------- C6
\* the accumulated sums of the first i bucket lines
RECURSIVE SumProb(_, _)
SumProb(lines, i) ==
    IF i = 0 \/ Len(lines) < 0 THEN Zero
    ELSE DecAdd(prec, SumProb(lines, i - 1), lines[i].prob)

RECURSIVE SumContribution(_, _)
SumContribution(lines, i) ==
    IF i = 0 \/ Len(lines) < 0 THEN Zero
    ELSE DecAdd(prec, SumContribution(lines, i - 1), lines[i].contribution)

\* C6 as stated: the index range is determined by rows: a completed
\* evaluation has visited the indices 0..rows.
C6_RangeFromRows == pc = "returned" => Len(emitted) = rows + 1

\* C6 amended: the evaluation visits each index i of the multiplier table,
\* from 0 to len(multipliers) - 1, once and in ascending order, calls
\* binomial_probability with k = i, and its rtp and total probability are the
\* sums of p_i * multipliers[i] and of p_i over these indices; the index range
\* is determined by the length of the table, not by rows.
C6_RangeFromTable ==
    pc \in {"loop", "returned"} =>
        /\ Len(emitted) = bucket_index
        /\ \A i \in 1..Len(emitted) :
              /\ emitted[i].bucket_index = i - 1
              /\ emitted[i].left_steps = i - 1
              /\ emitted[i].prob
                     = binomial_probability(prec, rows, i - 1, LEFT_PROBABILITY)
              /\ emitted[i].multiplier = DecimalOfStr(multipliers[i])
              /\ emitted[i].contribution
                     = DecMul(prec, emitted[i].prob, emitted[i].multiplier)
        /\ total_prob = SumProb(emitted, Len(emitted))
        /\ total_rtp = SumContribution(emitted, Len(emitted))
        /\ pc = "returned" => Len(emitted) = Len(multipliers)

\* a table one short has been evaluated: the last index visited is rows - 1
C6_Witness ==
    /\ pc = "returned"
    /\ rows >= 1
    /\ Len(multipliers) = rows
    /\ bucket_index = rows
    /\ emitted[rows].left_steps = rows - 1

\* ---------------------------------------------------------------- C7
\* whether the exact RTP of row count r is above 1
Advantage(r) == DecCmp(exact[r], One) > 0

\* C7: the status of a summary line is PLAYER ADVANTAGE exactly when the
\* exact RTP of its row count is above 1, and the findings report that all
\* configurations have a positive house edge exactly when no exact RTP is
\* above 1.
C7_ExactClassification ==
    /\ \A i \in 1..Len(summary) :
          (summary[i].status = "PLAYER ADVANTAGE") <=> Advantage(summary[i].rows)
    /\ pc = "done" =>
          ((findings.verdict = "All configurations have positive house edge")
              <=> ~\E r \in DOMAIN exact : Advantage(r))

\* ---------------------------------------------------------------- C8
\* C8 as stated: under the bias 0.5 the probabilities of k and rows - k are
\* equal for every rows >= 0.
C8_Symmetric ==
    (pc = "probed" /\ probe.p = DecimalOfStr(Half)
      /\ 0 <= probe.k /\ probe.k <= probe.n)
        => DecEq(answer,
                 binomial_probability(prec, probe.n, probe.n - probe.k, probe.p))

\* C8 amended: under the bias 0.5 the probabilities of k and rows - k are
\* equal for every rows from 0 to 68; from 69 rows on the rounding to 50
\* digits breaks the equality (at rows = 69 for k = 16).
C8_SymmetricUpTo68 ==
    (pc = "probed" /\ probe.p = DecimalOfStr(Half)
      /\ 0 <= probe.k /\ probe.k <= probe.n /\ probe.n <= 68)
        => DecEq(answer,
                 binomial_probability(prec, probe.n, probe.n - probe.k, probe.p))

\* the probability of k = 16 of 68 rows has been computed and equals that of
\* k = 52
C8_Witness ==
    /\ Probed(68, 16, Half)
    /\ answer.kind = "fin"
    /\ DecEq(answer, binomial_probability(prec, 68, 52, probe.p))

\* ---------------------------------------------------------------- C9
\* the RTP of the table ms of r rows under the bias p, summed from scratch
\* over the first i entries
RECURSIVE RtpOf(_, _, _, _)
RtpOf(ms, r, p, i) ==
    IF i = 0 \/ Len(ms) < 0 THEN Zero
    ELSE DecAdd(prec, RtpOf(ms, r, p, i - 1),
                DecMul(prec, binomial_probability(prec, r, i - 1, p),
                       DecimalOfStr(ms[i])))

\* C9: no step of an evaluation changes MULTIPLIER_TABLES, LEFT_PROBABILITY
\* or the precision, and the RTP an evaluation returns is that of its row
\* count alone: the value computed from the table and the bias from scratch,
\* and the value any earlier evaluation of the same row count returned,
\* whatever was evaluated in between.
C9_NoSharedState ==
    /\ [][globals' = globals]_vars
    /\ [](pc = "returned" =>
            /\ retval = FloatOfDec(RtpOf(MULTIPLIER_TABLES[rows], rows,
                                         LEFT_PROBABILITY,
                                         Len(MULTIPLIER_TABLES[rows])))
            /\ rows \in DOMAIN results => retval = results[rows])

\* a row count has been evaluated again after another row count
C9_Witness ==
    /\ pc = "returned"
    /\ rows \in DOMAIN results
    /\ Cardinality(DOMAIN results) >= 2
    /\ ncalls = 3
    /\ retval = results[rows]

\* ---------------------------------------------------------------- C10
\* where main stands in one pass over a row count and after the passes
C10_Phase ==
    CASE pc = "main" -> 1
      [] pc = "loop" -> 2
      [] pc = "returned" -> 3
      [] pc = "summary" -> 4
      [] OTHER -> 5

\* a step brings main nearer to its end: a row count is done with, or the
\* pass over the current one moves on, or one more bucket of at most
\* len(multipliers) or one more summary line of at most six is produced
C10_Progress ==
    \/ Len(todo') < Len(todo)
    \/ Len(todo') = Len(todo) /\ C10_Phase' > C10_Phase
    \/ /\ pc = "loop" /\ pc' = "loop"
       /\ bucket_index' = bucket_index + 1
       /\ bucket_index' <= Len(multipliers)
    \/ /\ pc = "summary" /\ pc' = "summary"
       /\ Len(summary') = Len(summary) + 1
       /\ Len(summary') <= Len(MainRows)

C10_Shape ==
    /\ \A i \in 1..Len(MainRows) :
          /\ MainRows[i] \in DOMAIN MULTIPLIER_TABLES
          /\ Len(MULTIPLIER_TABLES[MainRows[i]]) = MainRows[i] + 1
    /\ pc \in {"main", "loop", "returned", "summary", "done"}
    /\ pc = "main" => todo # <<>>
    /\ pc = "loop" => bucket_index <= Len(multipliers)
    /\ pc = "returned" =>
          /\ Len(emitted) = rows + 1
          /\ \A i \in 1..Len(emitted) : emitted[i].left_steps = i - 1
    /\ Len(summary) <= Len(MainRows)
    /\ \A i \in 1..Len(summary) : summary[i].rows = MainRows[i]
    /\ pc = "done" =>
          /\ DOMAIN results = {MainRows[i] : i \in 1..Len(MainRows)}
          /\ Len(summary) = Len(MainRows)

\* C10: every row count main evaluates has a table of rows + 1 entries, each
\* evaluation's loop runs rows + 1 times with k = 0..rows, main never aborts
\* or gets stuck and every step brings it nearer to its end, and at its end
\* one RTP is recorded and one summary line printed per row count, the lines
\* in ascending order of rows.
C10_DriverCompletes == []C10_Shape /\ [][C10_Progress]_vars

\* main has ended with its six summary lines
C10_Witness ==
    /\ pc = "done"
    /\ Len(summary) = 6
    /\ summary[1].rows = 11
    /\ summary[6].rows = 16

====
